---- MODULE Spec2Model ----
(***************************************************************************)
(* Model of screenshot-manager (src/src/main.rs): the filename classifier, *)
(* the mover, the "latest" pointer refresh, the reconciliation pass, and   *)
(* the watch loop with its signal thread.                                  *)
(*                                                                         *)
(* File and directory names are strings; a path is the tuple of the names  *)
(* below the watched root (the root itself is <<>>).  The filesystem is a  *)
(* function from the existing paths to their nodes.                        *)
(***************************************************************************)
EXTENDS Integers, Sequences, FiniteSets, TLC

VARIABLES
    fs,         \* the tree below the watched root: path -> node
    pc,         \* main thread: "start", "setup", "watcher", "recv", "dispatch", "terminated"
    exitStatus, \* argument of std::process::exit, -1 while the process lives
    exitAt,     \* which exit call ended the process
    chan,       \* the mpsc channel: items sent and not yet received
    senders,    \* live Sender handles of the channel
    item,       \* the item the last rx.recv() returned
    running,    \* the AtomicBool shared with the signal thread
    sigpc,      \* signal thread: "unspawned", "wait", "store", "send", "done"
    sig,        \* the signal the signal thread is handling
    emitted,    \* number of items the watcher thread has sent
    werr,       \* whether the watcher thread has ever sent an Err item
    done,       \* what the last handler of the main thread did
    before,     \* the tree before the last handler ran
    parts       \* the components the filename under classification was built from

vars == <<fs, pc, exitStatus, exitAt, chan, senders, item, running, sigpc, sig,
          emitted, werr, done, before, parts>>

procVars == <<pc, exitStatus, exitAt, chan, senders, item, running, sigpc, sig,
              emitted, werr>>

-----------------------------------------------------------------------------
(* Program constants, main.rs lines 23-28 *)

LATEST == "latest"
\* OTHER of main.rs (OTHER is a reserved word of TLA+)
OTHER_DIR == "other"

-----------------------------------------------------------------------------
(* Strings *)

Char(s, i) == SubSeq(s, i, i)

DigitChars == "0123456789"

DigitChar(d) == Char(DigitChars, d + 1)

IsDigit(c) == \E d \in 0..9 : DigitChar(d) = c

DigitVal(c) == CHOOSE d \in 0..9 : DigitChar(d) = c

Last(p) == p[Len(p)]

Max(S) == CHOOSE x \in S : \A y \in S : y <= x

Min(S) == CHOOSE x \in S : \A y \in S : x <= y

-----------------------------------------------------------------------------
(* NAME_REGEX: (?<YEAR>\d\d\d\d)-(?<MONTH>\d\d)-(?<DAY>\d\d).*\.png$        *)
(* The pattern has no ^: the regex crate searches for the leftmost start   *)
(* at which it matches.  ".*" then "\.png$" : the text must end in ".png"  *)
(* at or after the tenth character of the date.  (The names of the model   *)
(* are ASCII without line breaks, so \d is 0-9 and "." is any character.)  *)

\* a mutant: the date is only looked for at the start of the name
RegexMatchAtAnchored(s, i) ==
    /\ i = 1
    /\ i + 13 <= Len(s)
    /\ \A k \in {0, 1, 2, 3, 5, 6, 8, 9} : IsDigit(Char(s, i + k))
    /\ Char(s, i + 4) = "-"
    /\ Char(s, i + 7) = "-"
    /\ SubSeq(s, Len(s) - 3, Len(s)) = ".png"

RegexMatchAt(s, i) ==
    /\ i + 13 <= Len(s)
    /\ \A k \in {0, 1, 2, 3, 5, 6, 8, 9} : IsDigit(Char(s, i + k))
    /\ Char(s, i + 4) = "-"
    /\ Char(s, i + 7) = "-"
    /\ SubSeq(s, Len(s) - 3, Len(s)) = ".png"

NameRegexCaptures(s) ==
    LET starts == {i \in 1..Len(s) : RegexMatchAt(s, i)}
    IN  IF starts = {}
        THEN [matched |-> FALSE, YEAR |-> "", MONTH |-> "", DAY |-> ""]
        ELSE LET i == Min(starts)
             IN  [matched |-> TRUE,
                  YEAR    |-> SubSeq(s, i, i + 3),
                  MONTH   |-> SubSeq(s, i + 5, i + 6),
                  DAY     |-> SubSeq(s, i + 8, i + 9)]

\* the destination update_file hands to move_files (lines 72-88)
Destination(filename) ==
    LET m == NameRegexCaptures(filename)
    IN  IF m.matched THEN <<m.YEAR, m.MONTH, m.DAY>> ELSE <<OTHER_DIR>>

-----------------------------------------------------------------------------
(* str::parse::<u32>, u32::to_string and format!("{:0>2}") as update_latest *)
(* uses them.  Names of the model have at most four digits, far below 2^32, *)
(* so the overflow error of parse cannot arise.                             *)

RECURSIVE DigitsValue(_, _)
DigitsValue(s, acc) ==
    IF s = "" THEN acc
    ELSE DigitsValue(SubSeq(s, 2, Len(s)), acc * 10 + DigitVal(Char(s, 1)))

ParseU32(s) ==
    LET body == IF Len(s) > 0 /\ Char(s, 1) = "+" THEN SubSeq(s, 2, Len(s)) ELSE s
    IN  IF body = "" \/ \E i \in 1..Len(body) : ~IsDigit(Char(body, i))
        THEN [ok |-> FALSE, val |-> 0]
        ELSE [ok |-> TRUE, val |-> DigitsValue(body, 0)]

RECURSIVE U32ToString(_)
U32ToString(n) ==
    IF n < 10 THEN DigitChar(n)
    ELSE U32ToString(n \div 10) \o DigitChar(n % 10)

\* a mutant: the month and day are not zero-padded
Pad2Unpadded(n) == U32ToString(n)

Pad2(n) ==
    LET s == U32ToString(n)
    IN  IF Len(s) >= 2 THEN s ELSE "0" \o s

-----------------------------------------------------------------------------
(* The filesystem.  A node is a regular file (with the identity of its     *)
(* content), a directory, or a symbolic link (with its target path).       *)
(* In the trees of the model only the last component of a path is ever a   *)
(* symbolic link, and no link points at a link.                            *)

Root == <<>>

FileNode(i) == [kind |-> "file", id |-> i, target |-> <<>>]
DirNode == [kind |-> "dir", id |-> 0, target |-> <<>>]
LinkNode(t) == [kind |-> "symlink", id |-> 0, target |-> t]

Present(f, p) == p = Root \/ p \in DOMAIN f

\* the node a path leads to once a final symbolic link is followed
Follow(f, p) ==
    IF p = Root THEN DirNode
    ELSE IF f[p].kind = "symlink"
         THEN IF f[p].target = Root THEN DirNode ELSE f[f[p].target]
         ELSE f[p]

\* Path::exists, Path::is_file, Path::is_dir: they follow symbolic links
Exists(f, p) ==
    /\ Present(f, p)
    /\ p # Root /\ f[p].kind = "symlink" => Present(f, f[p].target)

IsFile(f, p) == Exists(f, p) /\ Follow(f, p).kind = "file"

IsDir(f, p) == Exists(f, p) /\ Follow(f, p).kind = "dir"

\* Path::is_symlink: it does not follow
IsSymlink(f, p) == p # Root /\ p \in DOMAIN f /\ f[p].kind = "symlink"

IsPrefix(d, p) == Len(d) <= Len(p) /\ SubSeq(p, 1, Len(d)) = d

Parent(p) == SubSeq(p, 1, Len(p) - 1)

Children(f, d) == {p \in DOMAIN f : Len(p) = Len(d) + 1 /\ IsPrefix(d, p)}

Without(f, p) == [q \in DOMAIN f \ {p} |-> f[q]]

\* fs::read_dir: an error unless the path is a directory
ReadDir(f, d) ==
    IF IsDir(f, d)
    THEN [ok |-> TRUE, entries |-> Children(f, d)]
    ELSE [ok |-> FALSE, entries |-> {}]

\* fs::create_dir_all: a component that exists and is no directory fails the
\* call before anything is created (mkdir of the full path reports ENOTDIR
\* or EEXIST, which is not retried); otherwise every missing prefix is made
CreateDirAll(f, p) ==
    IF IsDir(f, p) THEN [fs |-> f, ok |-> TRUE]
    ELSE IF \E k \in 1..Len(p) :
                LET q == SubSeq(p, 1, k) IN Present(f, q) /\ ~IsDir(f, q)
         THEN [fs |-> f, ok |-> FALSE]
         ELSE LET missing == {SubSeq(p, 1, k) : k \in 1..Len(p)} \ DOMAIN f
              IN  [fs |-> [q \in DOMAIN f \cup missing |->
                              IF q \in DOMAIN f THEN f[q] ELSE DirNode],
                   ok |-> TRUE]

\* fs::rename of something that is no directory (the program renames only
\* what is_file accepted): the source must exist, the destination's parent
\* must be a directory, the destination must not be a directory; an existing
\* destination file or link is replaced
Rename(f, from, to) ==
    IF \/ ~Present(f, from)
       \/ from = Root
       \/ ~IsDir(f, Parent(to))
       \/ (to \in DOMAIN f /\ f[to].kind = "dir")
    THEN [fs |-> f, ok |-> FALSE]
    ELSE IF from = to THEN [fs |-> f, ok |-> TRUE]
    ELSE [fs |-> (to :> f[from]) @@ Without(f, from), ok |-> TRUE]

\* fs::remove_file
RemoveFile(f, p) ==
    IF p = Root \/ p \notin DOMAIN f \/ f[p].kind = "dir"
    THEN [fs |-> f, ok |-> FALSE]
    ELSE [fs |-> Without(f, p), ok |-> TRUE]

\* std::os::unix::fs::symlink: EEXIST when the link's path is taken, even by
\* a link whose target is gone
Symlink(f, target, link) ==
    IF link \in DOMAIN f \/ ~IsDir(f, Parent(link))
    THEN [fs |-> f, ok |-> FALSE]
    ELSE [fs |-> (link :> LinkNode(target)) @@ f, ok |-> TRUE]

-----------------------------------------------------------------------------
(* move_files, lines 163-178 *)

MoveFiles(f, file, to) ==
    LET from == <<file>>
        end_file == Append(to, file)
        made == IF ~Exists(f, to) THEN CreateDirAll(f, to) ELSE [fs |-> f, ok |-> TRUE]
    IN  IF ~made.ok THEN [fs |-> made.fs, ok |-> FALSE]
        ELSE Rename(made.fs, from, end_file)

(* update_file, lines 63-91.  The watcher is not recursive and              *)
(* clean_directory lists the root, so `file` is always root/<name>: the     *)
(* model passes the name.                                                   *)

\* a mutant: whatever the entry is, it is moved
UpdateFileAny(f, name) == MoveFiles(f, name, Destination(name))

UpdateFile(f, name) ==
    IF ~IsFile(f, <<name>>) THEN [fs |-> f, ok |-> TRUE]
    ELSE MoveFiles(f, name, Destination(name))

-----------------------------------------------------------------------------
(* update_latest, lines 93-129 *)

\* dir_filter: DirEntry::file_type does not follow symbolic links
DirFilter(f, entries) == {p \in entries : f[p].kind = "dir"}

\* a mutant: the smallest number instead of the largest
MaxNameFoldMin(f, entries) ==
    LET vals == {ParseU32(Last(p)).val : p \in DirFilter(f, entries)}
    IN  IF vals = {} THEN 0 ELSE Min(vals)

\* fold(0, max_name_fold): the largest parsed name, 0 for what does not parse
MaxNameFold(f, entries) ==
    Max({0} \cup {ParseU32(Last(p)).val : p \in DirFilter(f, entries)})

\* a mutant: the link is made without looking whether the day path exists
UpdateLatestUnchecked(f) ==
    LET failed(g) == [fs |-> g, ok |-> FALSE, linked |-> FALSE]
        year == MaxNameFold(f, ReadDir(f, Root).entries)
        year_path == <<U32ToString(year)>>
        months == ReadDir(f, year_path)
        month == MaxNameFold(f, months.entries)
        month_path == Append(year_path, Pad2(month))
        days == ReadDir(f, month_path)
        day == MaxNameFold(f, days.entries)
        day_path == Append(month_path, Pad2(day))
        latest == <<LATEST>>
    IN  IF ~months.ok THEN failed(f)
        ELSE IF ~days.ok THEN failed(f)
        ELSE IF Exists(f, latest) /\ ~IsSymlink(f, latest)
             THEN [fs |-> f, ok |-> TRUE, linked |-> FALSE]
        ELSE LET g == IF Exists(f, latest) THEN RemoveFile(f, latest).fs ELSE f
                 l == Symlink(g, day_path, latest)
             IN  [fs |-> l.fs, ok |-> l.ok, linked |-> l.ok]

UpdateLatest(f) ==
    LET failed(g) == [fs |-> g, ok |-> FALSE, linked |-> FALSE]
        year == MaxNameFold(f, ReadDir(f, Root).entries)
        year_path == <<U32ToString(year)>>
        months == ReadDir(f, year_path)
        month == MaxNameFold(f, months.entries)
        month_path == Append(year_path, Pad2(month))
        days == ReadDir(f, month_path)
        day == MaxNameFold(f, days.entries)
        day_path == Append(month_path, Pad2(day))
        latest == <<LATEST>>
    IN  IF ~months.ok THEN failed(f)
        ELSE IF ~days.ok THEN failed(f)
        ELSE IF Exists(f, latest) /\ ~IsSymlink(f, latest)
             THEN [fs |-> f, ok |-> TRUE, linked |-> FALSE]   \* Do not touch
        ELSE LET g == IF Exists(f, latest) THEN RemoveFile(f, latest).fs ELSE f
             IN  IF ~Exists(g, day_path)
                 THEN [fs |-> g, ok |-> TRUE, linked |-> FALSE]
                 ELSE LET l == Symlink(g, day_path, latest)
                      IN  [fs |-> l.fs, ok |-> l.ok, linked |-> l.ok]

-----------------------------------------------------------------------------
(* clean_directory, lines 131-161.  read_dir yields the entries of the root *)
(* in an order the program does not control: `ord` is that order.          *)

RootNames(f) == {Last(p) : p \in Children(f, Root)}

RECURSIVE Orders(_)
Orders(S) ==
    IF S = {} THEN {<<>>}
    ELSE UNION {{<<x>> \o o : o \in Orders(S \ {x})} : x \in S}

\* a mutant: the first failing entry ends the iteration
RECURSIVE CleanEntriesStop(_, _, _, _)
CleanEntriesStop(f, ord, attempted, errors) ==
    IF ord = <<>> \/ errors # <<>>
    THEN [fs |-> f, attempted |-> attempted, errors |-> errors]
    ELSE LET r == UpdateFile(f, Head(ord))
         IN  CleanEntriesStop(r.fs, Tail(ord), Append(attempted, Head(ord)),
                              IF r.ok THEN errors ELSE Append(errors, Head(ord)))

RECURSIVE CleanEntries(_, _, _, _)
CleanEntries(f, ord, attempted, errors) ==
    IF ord = <<>>
    THEN [fs |-> f, attempted |-> attempted, errors |-> errors]
    ELSE LET r == UpdateFile(f, Head(ord))
         IN  CleanEntries(r.fs, Tail(ord), Append(attempted, Head(ord)),
                          IF r.ok THEN errors ELSE Append(errors, Head(ord)))

CleanDirectory(f, ord) ==
    LET swept == CleanEntries(f, ord, <<>>, <<>>)
        latest == UpdateLatest(swept.fs)
    IN  [fs |-> latest.fs, ok |-> latest.ok, attempted |-> swept.attempted,
         errors |-> swept.errors, refreshes |-> 1, linked |-> latest.linked]

-----------------------------------------------------------------------------
(* What a handler of the main thread reports about its last run. *)

NoDone == [op |-> "none", ok |-> TRUE, attempted |-> <<>>, errors |-> <<>>,
           refreshes |-> 0, linked |-> FALSE]

NoParts == [pre |-> "", y |-> "", s1 |-> "", m |-> "", s2 |-> "", d |-> "",
            rest |-> "", ext |-> ""]

NoItem == [tag |-> "none", src |-> "none", kind |-> "none", paths |-> <<>>]

\* the process before main runs, on the tree f
ProcInit ==
    /\ pc = "start"
    /\ exitStatus = -1
    /\ exitAt = "none"
    /\ chan = <<>>
    /\ senders = {}
    /\ item = NoItem
    /\ running = TRUE
    /\ sigpc = "unspawned"
    /\ sig = "none"
    /\ emitted = 0
    /\ werr = FALSE

-----------------------------------------------------------------------------
(* ClassifySpec: update_file on a root holding one file, whose name is     *)
(* assembled from a prefix, a year, a month, a day, two separators, a rest *)
(* and an extension; then update_latest on what the move left.             *)

Prefixes == {"", "shot-", "1", "2020-01-01_"}
NameYears == {"2023", "0999", "20x3"}
Seps == {"-", "_"}
NameMonths == {"05", "5"}
NameDays == {"09", "9"}
Rests == {"", "-a"}
Exts == {".png", ".jpg", ".png~"}

PartsSet ==
    [pre : Prefixes, y : NameYears, s1 : Seps, m : NameMonths, s2 : Seps,
     d : NameDays, rest : Rests, ext : Exts]

NameOf(p) == p.pre \o p.y \o p.s1 \o p.m \o p.s2 \o p.d \o p.rest \o p.ext

ClassifyInit ==
    /\ parts \in PartsSet
    /\ fs = (<<NameOf(parts)>> :> FileNode(1))
    /\ before = fs
    /\ done = NoDone
    /\ ProcInit

ClassifyApply ==
    /\ done.op = "none"
    /\ \E r \in {UpdateFile(fs, NameOf(parts))} :
           /\ fs' = r.fs
           /\ done' = [NoDone EXCEPT !.op = "file", !.ok = r.ok,
                                     !.attempted = <<NameOf(parts)>>]
    /\ before' = fs
    /\ UNCHANGED <<parts, procVars>>

\* update_latest after the move, as clean_directory (line 156) and the
\* event branch (line 301) run it
ClassifyRefresh ==
    /\ done.op = "file"
    /\ \E r \in {UpdateLatest(fs)} :
           /\ fs' = r.fs
           /\ done' = [NoDone EXCEPT !.op = "latest", !.ok = r.ok,
                                     !.refreshes = 1, !.linked = r.linked]
    /\ before' = fs
    /\ UNCHANGED <<parts, procVars>>

ClassifyNext == ClassifyApply \/ ClassifyRefresh

ClassifySpec == ClassifyInit /\ [][ClassifyNext]_vars

-----------------------------------------------------------------------------
(* FsSpec: the handlers applied, any number of times, to a root built from *)
(* up to MaxParts date partitions and one of the scenarios below.          *)

MaxParts == 3

PartYears == {"2022", "2023"}
PartMonths == {"01", "12"}
PartDays == {"05", "31"}

PartSet == {<<y, m, d>> : y \in PartYears, m \in PartMonths, d \in PartDays}

Prefixes3(p) == {SubSeq(p, 1, k) : k \in 1..Len(p)}

\* the directories of a set of partitions
DirTree(P) ==
    LET dirs == UNION {Prefixes3(p) : p \in P}
    IN  [q \in dirs |-> DirNode]

DatedA == "2024-03-01-a.png"
DatedB == "2023-12-31-b.png"
Notes == "notes.txt"
Memo == "memo.txt"

Scenarios ==
    {"plain", "live", "dangling", "latestFile", "latestDir", "files", "collide",
     "blockedOther", "blockedDate", "unpadded", "leadzero", "emptyYear",
     "emptyMonth", "dayFile", "linkToFile"}

Extra(sc, P) ==
    CASE sc = "plain" -> <<>>
      [] sc = "live" ->
            (<<LATEST>> :> LinkNode(IF P = {} THEN <<"1999", "01", "01">>
                                    ELSE CHOOSE p \in P : TRUE))
      [] sc = "dangling" -> (<<LATEST>> :> LinkNode(<<"1999", "01", "01">>))
      [] sc = "latestFile" -> (<<LATEST>> :> FileNode(9))
      [] sc = "latestDir" -> (<<LATEST>> :> DirNode)
      [] sc = "files" -> (<<DatedA>> :> FileNode(1)) @@ (<<Notes>> :> FileNode(2))
      [] sc = "collide" ->
            (<<DatedB>> :> FileNode(1))
            @@ DirTree({<<"2023", "12", "31">>})
            @@ (<<"2023", "12", "31", DatedB>> :> FileNode(2))
      [] sc = "blockedOther" ->
            (<<DatedA>> :> FileNode(1)) @@ (<<Notes>> :> FileNode(2))
            @@ (<<Memo>> :> FileNode(3))
            @@ (<<OTHER_DIR>> :> DirNode) @@ (<<OTHER_DIR, Notes>> :> DirNode)
      [] sc = "blockedDate" ->
            (<<DatedA>> :> FileNode(1)) @@ (<<Notes>> :> FileNode(2))
            @@ (<<"2024">> :> FileNode(3))
      [] sc = "unpadded" -> DirTree({<<"2024", "3", "5">>})
      [] sc = "leadzero" -> DirTree({<<"0999", "01", "01">>})
      [] sc = "emptyYear" -> (<<"2025">> :> DirNode)
      [] sc = "emptyMonth" ->
            (<<"2025">> :> DirNode) @@ (<<"2025", "01">> :> DirNode)
            @@ (IF P = {} THEN <<>>
                ELSE (<<LATEST>> :> LinkNode(CHOOSE p \in P : TRUE)))
      [] sc = "dayFile" ->
            DirTree({<<"2025", "01", "5">>})
            @@ (<<"2025", "01", "05">> :> FileNode(7))
      [] sc = "linkToFile" ->
            (<<Notes>> :> LinkNode(<<OTHER_DIR, Memo>>))
            @@ (<<OTHER_DIR>> :> DirNode) @@ (<<OTHER_DIR, Memo>> :> FileNode(4))

Tree(sc, P) == Extra(sc, P) @@ DirTree(P)

FsInit ==
    /\ \E P \in SUBSET PartSet, sc \in Scenarios :
          /\ Cardinality(P) <= MaxParts
          /\ fs = Tree(sc, P)
    /\ before = fs
    /\ done = NoDone
    /\ parts = NoParts
    /\ ProcInit

RECURSIVE SomeOrder(_)
SomeOrder(S) ==
    IF S = {} THEN <<>>
    ELSE LET x == CHOOSE y \in S : TRUE IN <<x>> \o SomeOrder(S \ {x})

\* the orders read_dir may list the root in.  update_file does nothing for
\* an entry that is not a file, whatever the tree then is, so the orders are
\* taken up to the place of those entries: they come first.
ListOrders(f) ==
    LET names == RootNames(f)
        files == {n \in names : IsFile(f, <<n>>)}
        rest == SomeOrder(names \ files)
    IN  {rest \o o : o \in Orders(files)}

FsCleanDirectory ==
    /\ \E ord \in ListOrders(fs) :
          \E r \in {CleanDirectory(fs, ord)} :
              /\ fs' = r.fs
              /\ done' = [op |-> "clean", ok |-> r.ok, attempted |-> r.attempted,
                          errors |-> r.errors, refreshes |-> r.refreshes,
                          linked |-> r.linked]
    /\ before' = fs
    /\ UNCHANGED <<parts, procVars>>

FsUpdateLatest ==
    /\ \E r \in {UpdateLatest(fs)} :
           /\ fs' = r.fs
           /\ done' = [NoDone EXCEPT !.op = "latest", !.ok = r.ok,
                                     !.refreshes = 1, !.linked = r.linked]
    /\ before' = fs
    /\ UNCHANGED <<parts, procVars>>

FsUpdateFile ==
    /\ \E name \in {n \in RootNames(fs) : IsFile(fs, <<n>>)} :
          \E r \in {UpdateFile(fs, name)} :
              /\ fs' = r.fs
              /\ done' = [NoDone EXCEPT !.op = "file", !.ok = r.ok,
                                        !.attempted = <<name>>,
                                        !.errors = IF r.ok THEN <<>> ELSE <<name>>]
    /\ before' = fs
    /\ UNCHANGED <<parts, procVars>>

FsNext == FsCleanDirectory \/ FsUpdateLatest \/ FsUpdateFile

FsSpec == FsInit /\ [][FsNext]_vars

-----------------------------------------------------------------------------
(* Spec: the process.  main runs the startup sweep, registers the signals, *)
(* creates the channel and the watcher, spawns the signal thread and       *)
(* enters the watch loop.  The watcher thread and the user of the watched  *)
(* directory are the environment.  A handler of the main thread runs as    *)
(* one step; rx.recv() and the dispatch on what it returned are two steps, *)
(* and so are the store and the send of the signal thread.                 *)

MaxEmits == 2

\* a month without a day, and a root/latest whose target is gone
GapDangling ==
    (<<LATEST>> :> LinkNode(<<"1999", "01", "01">>))
    @@ (<<"2023">> :> DirNode) @@ (<<"2023", "01">> :> DirNode)

\* the trees the process is started on
StartTrees ==
    {Tree("plain", {}),
     Tree("files", {}),
     Tree("plain", {<<"2023", "12", "31">>}),
     Tree("live", {<<"2023", "12", "31">>}),
     Tree("dangling", {<<"2023", "12", "31">>}),
     Tree("latestFile", {<<"2023", "12", "31">>}),
     Tree("latestDir", {<<"2023", "12", "31">>}),
     Tree("blockedOther", {<<"2023", "12", "31">>}),
     GapDangling}

\* the paths one close-write notification may carry
WritePaths == {<<DatedA>>, <<Notes>>, <<Notes, DatedA>>}

WatchNames == {DatedA, Notes}

\* the other event kinds of the model
OtherKinds == {"create", "remove"}

Signals == {"SIGINT", "SIGTERM"}

OkItem(kind, paths) == [tag |-> "ok", src |-> "watcher", kind |-> kind, paths |-> paths]

WatcherErrItem == [tag |-> "err", src |-> "watcher", kind |-> "io", paths |-> <<>>]

\* Err(notify::Error::generic("SIGINT")), lines 235 and 241
Sentinel(s) == [tag |-> "err", src |-> "signal", kind |-> s, paths |-> <<>>]

Init ==
    /\ fs \in StartTrees
    /\ before = fs
    /\ done = NoDone
    /\ parts = NoParts
    /\ ProcInit

Alive == pc # "terminated"

Watching == pc \in {"recv", "dispatch"}

\* std::process::exit
Exit(status, at) ==
    /\ pc' = "terminated"
    /\ exitStatus' = status
    /\ exitAt' = at

(* main, lines 203-208: the startup sweep *)
StartupClean ==
    /\ pc = "start"
    /\ \E ord \in ListOrders(fs) :
          \E r \in {CleanDirectory(fs, ord)} :
              /\ fs' = r.fs
              /\ done' = [op |-> "clean", ok |-> r.ok, attempted |-> r.attempted,
                          errors |-> r.errors, refreshes |-> r.refreshes,
                          linked |-> r.linked]
              /\ IF r.ok
                 THEN pc' = "setup" /\ UNCHANGED <<exitStatus, exitAt>>
                 ELSE Exit(1, "clean")
    /\ before' = fs
    /\ UNCHANGED <<chan, senders, item, running, sigpc, sig, emitted, werr, parts>>

\* a mutant: tx itself is moved into the watcher, main keeps no sender
SetupSignalsTxMoved ==
    /\ pc = "setup"
    /\ \E ok \in BOOLEAN :
          IF ok
          THEN /\ pc' = "watcher"
               /\ senders' = {"t", "watcher"}
               /\ sigpc' = "wait"
               /\ UNCHANGED <<exitStatus, exitAt>>
          ELSE /\ Exit(1, "signals")
               /\ UNCHANGED <<senders, sigpc>>
    /\ UNCHANGED <<fs, chan, item, running, sig, emitted, werr, done, before, parts>>

(* main, lines 212-247: Signals::new, the channel and its senders, the     *)
(* watcher's construction, the spawn of the signal thread                  *)
SetupSignals ==
    /\ pc = "setup"
    /\ \E ok \in BOOLEAN :
          IF ok
          THEN /\ pc' = "watcher"
               /\ senders' = {"tx", "t", "watcher"}
               /\ sigpc' = "wait"
               /\ UNCHANGED <<exitStatus, exitAt>>
          ELSE /\ Exit(1, "signals")
               /\ UNCHANGED <<senders, sigpc>>
    /\ UNCHANGED <<fs, chan, item, running, sig, emitted, werr, done, before, parts>>

(* main, lines 249-261: the watcher's construction checked, watch() *)
SetupWatcher ==
    /\ pc = "watcher"
    /\ \E outcome \in {"ok", "new_err", "watch_err"} :
          IF outcome = "ok"
          THEN pc' = "recv" /\ UNCHANGED <<exitStatus, exitAt>>
          ELSE Exit(1, outcome)
    /\ UNCHANGED <<fs, chan, senders, item, running, sigpc, sig, emitted, werr,
                   done, before, parts>>

\* a mutant: an error item anywhere in the channel is received first
RecvErrFirst ==
    /\ pc = "recv"
    /\ chan # <<>> \/ senders = {}
    /\ IF chan # <<>>
       THEN /\ LET errs == {i \in 1..Len(chan) : chan[i].tag = "err"}
                   k == IF errs = {} THEN 1 ELSE Min(errs)
               IN  /\ item' = chan[k]
                   /\ chan' = SubSeq(chan, 1, k - 1) \o SubSeq(chan, k + 1, Len(chan))
            /\ pc' = "dispatch"
            /\ UNCHANGED <<exitStatus, exitAt>>
       ELSE /\ Exit(1, "recv")
            /\ UNCHANGED <<item, chan>>
    /\ UNCHANGED <<fs, senders, running, sigpc, sig, emitted, werr, done, before, parts>>

(* main, lines 264-271: rx.recv() blocks while the channel is empty and a  *)
(* sender lives; it fails when the channel is empty and no sender is left  *)
Recv ==
    /\ pc = "recv"
    /\ chan # <<>> \/ senders = {}
    /\ IF chan # <<>>
       THEN /\ item' = Head(chan)
            /\ chan' = Tail(chan)
            /\ pc' = "dispatch"
            /\ UNCHANGED <<exitStatus, exitAt>>
       ELSE /\ Exit(1, "recv")
            /\ UNCHANGED <<item, chan>>
    /\ UNCHANGED <<fs, senders, running, sigpc, sig, emitted, werr, done, before, parts>>

\* a mutant: the flag is read the wrong way round
ErrItemInverted ==
    /\ pc = "dispatch"
    /\ item.tag = "err"
    /\ IF running THEN Exit(0, "graceful") ELSE Exit(1, "event_err")
    /\ UNCHANGED <<fs, chan, senders, item, running, sigpc, sig, emitted, werr,
                   done, before, parts>>

\* a mutant: an error item is logged and the loop goes on
ErrItemIgnored ==
    /\ pc = "dispatch"
    /\ item.tag = "err"
    /\ IF ~running /\ item.src = "signal" /\ chan = <<>>
       THEN Exit(0, "graceful")
       ELSE pc' = "recv" /\ UNCHANGED <<exitStatus, exitAt>>
    /\ UNCHANGED <<fs, chan, senders, item, running, sigpc, sig, emitted, werr,
                   done, before, parts>>

(* main, lines 273-281: an error item *)
ErrItem ==
    /\ pc = "dispatch"
    /\ item.tag = "err"
    /\ IF ~running THEN Exit(0, "graceful") ELSE Exit(1, "event_err")
    /\ UNCHANGED <<fs, chan, senders, item, running, sigpc, sig, emitted, werr,
                   done, before, parts>>

\* lines 291-298: the paths of one event, in the order the event lists them
RECURSIVE EventPaths(_, _, _, _)
EventPaths(f, paths, attempted, errors) ==
    IF paths = <<>>
    THEN [fs |-> f, attempted |-> attempted, errors |-> errors]
    ELSE IF IsFile(f, <<Head(paths)>>)
         THEN LET r == UpdateFile(f, Head(paths))
              IN  EventPaths(r.fs, Tail(paths), Append(attempted, Head(paths)),
                             IF r.ok THEN errors ELSE Append(errors, Head(paths)))
         ELSE EventPaths(f, Tail(paths), attempted, errors)

\* a mutant: the refresh is run only when every move of the batch succeeded
EventBatchRefreshOnSuccess(f, event) ==
    IF event.kind # "close_write"
    THEN [fs |-> f, ok |-> TRUE, attempted |-> <<>>, errors |-> <<>>,
          refreshes |-> 0, linked |-> FALSE]
    ELSE LET moved == EventPaths(f, event.paths, <<>>, <<>>)
             work_done == moved.attempted # <<>> /\ moved.errors = <<>>
             latest == UpdateLatest(moved.fs)
         IN  IF work_done
             THEN [fs |-> latest.fs, ok |-> latest.ok, attempted |-> moved.attempted,
                   errors |-> moved.errors, refreshes |-> 1, linked |-> latest.linked]
             ELSE [fs |-> moved.fs, ok |-> TRUE, attempted |-> moved.attempted,
                   errors |-> moved.errors, refreshes |-> 0, linked |-> FALSE]

\* a mutant: an event of any kind is handled as a close-write event
EventBatchAnyKind(f, event) ==
    LET moved == EventPaths(f, event.paths, <<>>, <<>>)
        work_done == moved.attempted # <<>>
        latest == UpdateLatest(moved.fs)
    IN  IF work_done
        THEN [fs |-> latest.fs, ok |-> latest.ok, attempted |-> moved.attempted,
              errors |-> moved.errors, refreshes |-> 1, linked |-> latest.linked]
        ELSE [fs |-> moved.fs, ok |-> TRUE, attempted |-> <<>>, errors |-> <<>>,
              refreshes |-> 0, linked |-> FALSE]

\* lines 288-305: what the loop does with an event
EventBatch(f, event) ==
    IF event.kind # "close_write"
    THEN [fs |-> f, ok |-> TRUE, attempted |-> <<>>, errors |-> <<>>,
          refreshes |-> 0, linked |-> FALSE]
    ELSE LET moved == EventPaths(f, event.paths, <<>>, <<>>)
             work_done == moved.attempted # <<>>
             latest == UpdateLatest(moved.fs)
         IN  IF work_done
             THEN [fs |-> latest.fs, ok |-> latest.ok, attempted |-> moved.attempted,
                   errors |-> moved.errors, refreshes |-> 1, linked |-> latest.linked]
             ELSE [fs |-> moved.fs, ok |-> TRUE, attempted |-> <<>>, errors |-> <<>>,
                   refreshes |-> 0, linked |-> FALSE]

\* a mutant: a failed move or a failed refresh ends the process
HandleEventFatal ==
    /\ pc = "dispatch"
    /\ item.tag = "ok"
    /\ \E r \in {EventBatch(fs, item)} :
          /\ fs' = r.fs
          /\ done' = [op |-> "event", ok |-> r.ok, attempted |-> r.attempted,
                      errors |-> r.errors, refreshes |-> r.refreshes,
                      linked |-> r.linked]
          /\ IF r.ok /\ r.errors = <<>>
             THEN pc' = "recv" /\ UNCHANGED <<exitStatus, exitAt>>
             ELSE Exit(1, "event")
    /\ before' = fs
    /\ UNCHANGED <<chan, senders, item, running, sigpc, sig, emitted, werr, parts>>

(* main, lines 283-306: an event; the loop goes back to recv *)
HandleEvent ==
    /\ pc = "dispatch"
    /\ item.tag = "ok"
    /\ \E r \in {EventBatch(fs, item)} :
          /\ fs' = r.fs
          /\ done' = [op |-> "event", ok |-> r.ok, attempted |-> r.attempted,
                      errors |-> r.errors, refreshes |-> r.refreshes,
                      linked |-> r.linked]
    /\ before' = fs
    /\ pc' = "recv"
    /\ UNCHANGED <<exitStatus, exitAt, chan, senders, item, running, sigpc, sig,
                   emitted, werr, parts>>

-----------------------------------------------------------------------------
(* The signal thread, lines 229-247 *)

\* signals.forever() yields SIGINT or SIGTERM
SignalReceive ==
    /\ Alive
    /\ sigpc = "wait"
    /\ \E s \in Signals : sig' = s
    /\ sigpc' = "store"
    /\ UNCHANGED <<fs, pc, exitStatus, exitAt, chan, senders, item, running,
                   emitted, werr, done, before, parts>>

\* a mutant: the flag is left alone
SignalStoreSkipped ==
    /\ Alive
    /\ sigpc = "store"
    /\ sigpc' = "send"
    /\ UNCHANGED <<fs, pc, exitStatus, exitAt, chan, senders, item, running, sig,
                   emitted, werr, done, before, parts>>

\* r.store(false, Ordering::SeqCst)
SignalStore ==
    /\ Alive
    /\ sigpc = "store"
    /\ running' = FALSE
    /\ sigpc' = "send"
    /\ UNCHANGED <<fs, pc, exitStatus, exitAt, chan, senders, item, sig,
                   emitted, werr, done, before, parts>>

\* a mutant: the thread ends without sending
SignalSendDropped ==
    /\ Alive
    /\ sigpc = "send"
    /\ senders' = senders \ {"t"}
    /\ sigpc' = "done"
    /\ UNCHANGED <<fs, pc, exitStatus, exitAt, chan, item, running, sig,
                   emitted, werr, done, before, parts>>

\* a mutant: no break, the thread goes back to wait for the next signal
SignalSendNoBreak ==
    /\ Alive
    /\ sigpc = "send"
    /\ chan' = Append(chan, Sentinel(sig))
    /\ sigpc' = "wait"
    /\ UNCHANGED <<fs, pc, exitStatus, exitAt, senders, item, running, sig,
                   emitted, werr, done, before, parts>>

\* _ = t.send(Err(..)); break: the closure ends and drops t
SignalSend ==
    /\ Alive
    /\ sigpc = "send"
    /\ chan' = Append(chan, Sentinel(sig))
    /\ senders' = senders \ {"t"}
    /\ sigpc' = "done"
    /\ UNCHANGED <<fs, pc, exitStatus, exitAt, item, running, sig,
                   emitted, werr, done, before, parts>>

-----------------------------------------------------------------------------
(* The environment: the user of the watched directory and the watcher      *)
(* thread, which sends what inotify reports into the channel.              *)

RECURSIVE Written(_, _, _)
Written(f, paths, id) ==
    IF paths = <<>> THEN f
    ELSE LET p == <<Head(paths)>>
             g == IF p \notin DOMAIN f \/ f[p].kind = "file"
                  THEN (p :> FileNode(id)) @@ f
                  ELSE f
         IN  Written(g, Tail(paths), id)

\* files are written in the root and closed: one close-write event
UserWrite ==
    /\ Watching
    /\ emitted < MaxEmits
    /\ \E paths \in WritePaths :
          /\ fs' = Written(fs, paths, 10 + emitted)
          /\ chan' = Append(chan, OkItem("close_write", paths))
    /\ emitted' = emitted + 1
    /\ UNCHANGED <<pc, exitStatus, exitAt, senders, item, running, sigpc, sig,
                   werr, done, before, parts>>

\* a file of the root is created (and not yet closed): a create event
UserCreate ==
    /\ Watching
    /\ emitted < MaxEmits
    /\ \E n \in WatchNames :
          /\ <<n>> \notin DOMAIN fs
          /\ fs' = (<<n>> :> FileNode(10 + emitted)) @@ fs
          /\ chan' = Append(chan, OkItem("create", <<n>>))
    /\ emitted' = emitted + 1
    /\ UNCHANGED <<pc, exitStatus, exitAt, senders, item, running, sigpc, sig,
                   werr, done, before, parts>>

\* a file of the root is removed: a remove event
UserRemove ==
    /\ Watching
    /\ emitted < MaxEmits
    /\ \E n \in WatchNames :
          /\ <<n>> \in DOMAIN fs
          /\ fs[<<n>>].kind = "file"
          /\ fs' = Without(fs, <<n>>)
          /\ chan' = Append(chan, OkItem("remove", <<n>>))
    /\ emitted' = emitted + 1
    /\ UNCHANGED <<pc, exitStatus, exitAt, senders, item, running, sigpc, sig,
                   werr, done, before, parts>>

\* the watcher reports an error of its own
WatcherError ==
    /\ Watching
    /\ emitted < MaxEmits
    /\ chan' = Append(chan, WatcherErrItem)
    /\ emitted' = emitted + 1
    /\ werr' = TRUE
    /\ UNCHANGED <<fs, pc, exitStatus, exitAt, senders, item, running, sigpc, sig,
                   done, before, parts>>

Next ==
    \/ StartupClean
    \/ SetupSignals
    \/ SetupWatcher
    \/ Recv
    \/ ErrItem
    \/ HandleEvent
    \/ SignalReceive
    \/ SignalStore
    \/ SignalSend
    \/ UserWrite
    \/ UserCreate
    \/ UserRemove
    \/ WatcherError

Spec == Init /\ [][Next]_vars

\* The control flow of HandleEvent alone: from the dispatch of an event
\* back to recv.  It is enabled exactly when HandleEvent is, and a step of
\* HandleEvent disables it, so weak fairness of it demands the same of a
\* behaviour as weak fairness of HandleEvent: the main thread does not stay
\* in the dispatch of an event for ever.  (TLC cannot evaluate ENABLED of
\* the handler's own formula in reasonable time.)
HandleEventControl ==
    /\ pc = "dispatch"
    /\ item.tag = "ok"
    /\ pc' = "recv"
    /\ UNCHANGED <<fs, exitStatus, exitAt, chan, senders, item, running, sigpc, sig,
                   emitted, werr, done, before, parts>>

(* The scheduler runs every thread that can take a step: the main thread   *)
(* (recv returns once the channel holds an item) and the signal thread.    *)
LiveSpec ==
    /\ Init
    /\ [][Next]_vars
    /\ WF_vars(Recv)
    /\ WF_vars(ErrItem)
    /\ WF_vars(HandleEventControl)
    /\ WF_vars(SignalStore)
    /\ WF_vars(SignalSend)

-----------------------------------------------------------------------------
(* Properties, checked under Spec and LiveSpec *)

SentinelInChannel == \E i \in 1..Len(chan) : chan[i].src = "signal"

\* the signal thread has sent its sentinel and the main thread has taken it
SentinelReceived == sigpc = "done" /\ ~SentinelInChannel

\* C1: whenever the consumer holds, or the channel carries, the sentinel of
\* the signal thread, the shared flag has already been cleared; a process
\* that ended on the sentinel ended with exit status 0, never 1.
C1_SentinelExitsGracefully ==
    /\ SentinelInChannel => ~running
    /\ (pc = "dispatch" /\ item.src = "signal") => ~running
    /\ (pc = "terminated" /\ item.src = "signal") =>
          (exitStatus = 0 /\ exitAt = "graceful")

\* the sentinel was received behind events of the watcher and ended the process
C1_Witness ==
    /\ pc = "terminated"
    /\ item.src = "signal"
    /\ exitStatus = 0
    /\ emitted > 0

\* C2: a process that ended on an error item ended with status 0 when the
\* flag said shutdown was requested and with status 1 when it did not; and
\* status 0 is only ever reached after the signal thread received SIGINT or
\* SIGTERM and cleared the flag.
C2_ExitStatusFollowsFlag ==
    /\ (pc = "terminated" /\ exitAt \in {"graceful", "event_err"}) =>
          /\ item.tag = "err"
          /\ (~running => exitStatus = 0 /\ exitAt = "graceful")
          /\ (running => exitStatus = 1 /\ exitAt = "event_err")
    /\ exitStatus = 0 => (sigpc \in {"send", "done"} /\ sig \in Signals)
    /\ pc = "terminated" => exitStatus \in {0, 1}

\* an error of the watcher received while no shutdown was requested: status 1
C2_Witness ==
    /\ pc = "terminated"
    /\ item = WatcherErrItem
    /\ running
    /\ sigpc = "wait"
    /\ exitStatus = 1

\* C3: in the watch loop, once the signal thread has received SIGINT or
\* SIGTERM the process eventually terminates, whatever is queued ahead of
\* the sentinel; and a process that left the loop without the watcher ever
\* having sent an error item left it with status 0.
C3_ShutdownTerminates ==
    /\ (Watching /\ sigpc \in {"store", "send", "done"}) ~> (pc = "terminated")
    /\ [](pc = "terminated" /\ exitAt \in {"recv", "graceful", "event_err"} /\ ~werr
            => exitStatus = 0)

\* shutdown after events were handled, the watcher having sent no error
C3_Witness ==
    /\ pc = "terminated"
    /\ exitStatus = 0
    /\ ~werr
    /\ emitted = MaxEmits
    /\ done.op = "event"
    /\ chan = <<>>

\* C4, as claimed: once the flag is cleared, a handled event moves no file
\* and refreshes no link.
C4_NoWorkAfterFlag ==
    [][(~running /\ pc = "dispatch" /\ pc' = "recv") =>
          (done'.attempted = <<>> /\ done'.refreshes = 0 /\ fs' = fs)]_vars

\* C4, amended: there is no draining state; after the flag is cleared the
\* consumer still handles the events ahead of the sentinel; once it has
\* received the sentinel it runs no handler again: nothing is moved, nothing
\* refreshed, and its only step is the exit.
C4_NoWorkAfterSentinel ==
    [][SentinelReceived =>
          /\ done' = done
          /\ pc' # pc => pc' = "terminated"]_vars

\* the process ended on the sentinel with a close-write event left unhandled
\* behind it, after handling a batch that arrived ahead of it
C4_Witness ==
    /\ pc = "terminated"
    /\ SentinelReceived
    /\ item.src = "signal"
    /\ done.op = "event"
    /\ done.attempted # <<>>
    /\ chan # <<>>
    /\ Head(chan).kind = "close_write"

\* C9, as claimed: started on an empty directory the process reaches the
\* watch loop; a close-write event for a date-named file handled on a root
\* that holds nothing but what the user wrote leaves the file in its
\* partition and root/latest pointing at that partition.
C9_EndToEnd ==
    /\ (done.op = "clean" /\ DOMAIN before = {}) => (done.ok /\ pc # "terminated")
    /\ (done.op = "event" /\ done.attempted = <<DatedA>>
          /\ \A p \in DOMAIN before : Len(p) = 1 /\ before[p].kind = "file") =>
          /\ <<"2024", "03", "01", DatedA>> \in DOMAIN fs
          /\ IsSymlink(fs, <<LATEST>>)
          /\ fs[<<LATEST>>].target = <<"2024", "03", "01">>

\* C12: in the watch loop the handling of an event never ends the process,
\* whether a move of the batch failed or the refresh failed: the main thread
\* goes back to recv.  The process leaves the loop only on an error item or
\* on a broken stream.  A failed startup sweep ends the process with status
\* 1 before the signal thread, the channel and the watcher exist.
C12_NonFatalFailures ==
    /\ [][(pc = "dispatch" /\ item.tag = "ok") => pc' \in {"dispatch", "recv"}]_vars
    /\ [][(Watching /\ pc' = "terminated") =>
             \/ (pc = "dispatch" /\ item.tag = "err"
                   /\ exitAt' \in {"graceful", "event_err"})
             \/ (pc = "recv" /\ chan = <<>> /\ senders = {} /\ exitAt' = "recv")]_vars
    /\ []((done.op = "clean" /\ ~done.ok) =>
             /\ pc = "terminated" /\ exitStatus = 1 /\ exitAt = "clean"
             /\ sigpc = "unspawned" /\ senders = {} /\ emitted = 0)
    /\ [](exitAt = "clean" => (done.op = "clean" /\ ~done.ok))

\* a batch whose move succeeded and whose refresh failed was handled, and
\* the main thread is back at recv
C12_Witness ==
    /\ done.op = "event"
    /\ ~done.ok
    /\ done.attempted # <<>>
    /\ done.refreshes = 1
    /\ pc = "recv"
    /\ exitStatus = -1

\* the step in which the main thread handles the event it received
HandlesEvent == pc = "dispatch" /\ item.tag = "ok" /\ pc' = "recv"

Range(q) == {q[i] : i \in 1..Len(q)}

\* C15: the handling of a close-write event runs update_file on those of
\* its paths that are files, in the event's order, and on nothing else: a
\* file of the root the event does not name stays; update_latest runs once
\* when at least one path was a file, whether or not the move succeeded,
\* and not at all when none was, and then the tree is left as it is.
C15_PerBatchRefresh ==
    [][(HandlesEvent /\ item.kind = "close_write") =>
          LET isFile(n) == IsFile(fs, <<n>>)
              files == SelectSeq(item.paths, isFile)
          IN  /\ done'.attempted = files
              /\ done'.refreshes = IF files = <<>> THEN 0 ELSE 1
              /\ files = <<>> => fs' = fs
              /\ \A n \in RootNames(fs) \ (Range(item.paths) \cup {LATEST}) :
                    <<n>> \in DOMAIN fs' /\ fs'[<<n>>] = fs[<<n>>]]_vars

\* notes.txt was reported and its move failed; the refresh ran once; the
\* file 2024-03-01-a.png, which the event did not name, is still in the root
C15_Witness ==
    /\ done.op = "event"
    /\ item.kind = "close_write"
    /\ item.paths = <<Notes>>
    /\ done.attempted = <<Notes>>
    /\ done.errors = <<Notes>>
    /\ done.refreshes = 1
    /\ <<DatedA>> \in DOMAIN before
    /\ <<DatedA>> \in DOMAIN fs
    /\ fs[<<DatedA>>].kind = "file"

\* C16: the handling of an event of a kind other than close-write changes
\* nothing in the tree, runs neither update_file nor update_latest, leaves
\* the channel, the flag and the exit status alone, and takes the main
\* thread back to recv.
C16_OtherKindsIgnored ==
    [][(pc = "dispatch" /\ item.tag = "ok" /\ item.kind # "close_write"
          /\ pc' # "dispatch") =>
          /\ pc' = "recv"
          /\ fs' = fs
          /\ done'.attempted = <<>>
          /\ done'.errors = <<>>
          /\ done'.refreshes = 0
          /\ ~done'.linked
          /\ UNCHANGED <<exitStatus, exitAt, chan, senders, item, running,
                         sigpc, sig, emitted, werr>>]_vars

\* a create event for 2024-03-01-a.png was handled and the file is still in
\* the root
C16_Witness ==
    /\ done.op = "event"
    /\ pc = "recv"
    /\ item = OkItem("create", <<DatedA>>)
    /\ done.refreshes = 0
    /\ <<DatedA>> \in DOMAIN fs
    /\ fs[<<DatedA>>].kind = "file"
    /\ fs = before

\* the sentinels the channel holds
SentinelsIn(q) == {i \in 1..Len(q) : q[i].src = "signal"}

\* C17: the signal thread handles one signal: it clears the flag, then
\* sends one sentinel, then ends and handles no other signal.  The channel
\* never holds two sentinels, none is sent after one was sent, and the step
\* that sends it is taken with the flag already cleared.
C17_OneShotSentinel ==
    /\ [](Cardinality(SentinelsIn(chan)) <= 1)
    /\ []((SentinelInChannel \/ item.src = "signal") => (sigpc = "done" /\ ~running))
    /\ [](sigpc \in {"send", "done"} => ~running)
    /\ [](running => sigpc \in {"unspawned", "wait", "store"})
    /\ [][Cardinality(SentinelsIn(chan')) > Cardinality(SentinelsIn(chan)) =>
             /\ sigpc = "send" /\ sigpc' = "done"
             /\ ~running
             /\ chan' = Append(chan, Sentinel(sig))
             /\ sig \in Signals]_vars
    /\ [][sigpc = "done" => (sigpc' = "done" /\ sig' = sig /\ running' = running)]_vars

\* the sentinel is queued behind an event, the signal thread has ended, and
\* the main thread is still in the loop
C17_Witness ==
    /\ Watching
    /\ sigpc = "done"
    /\ Len(chan) = 2
    /\ chan[1].src = "watcher"
    /\ chan[2] = Sentinel("SIGTERM")
    /\ "t" \notin senders

\* C18: the channel is a queue.  Every change of it either appends one item
\* at its end or is the receive, which takes the one item at its head; so
\* an error item is received only when nothing is ahead of it.  What the
\* main thread received it dispatches before it receives again: an event is
\* handled, its paths in the order the event lists them, an error item ends
\* the process.
C18_ArrivalOrder ==
    /\ [][chan' # chan =>
             \/ (Len(chan') = Len(chan) + 1 /\ SubSeq(chan', 1, Len(chan)) = chan
                   /\ pc' = pc /\ item' = item)
             \/ (pc = "recv" /\ pc' = "dispatch" /\ chan # <<>>
                   /\ item' = Head(chan) /\ chan' = Tail(chan))]_vars
    /\ [][(pc = "recv" /\ pc' # pc /\ chan # <<>>) =>
             (pc' = "dispatch" /\ item' = Head(chan) /\ chan' = Tail(chan))]_vars
    /\ [][(pc = "dispatch" /\ pc' # pc) =>
             IF item.tag = "ok"
             THEN LET isFile(n) == IsFile(fs, <<n>>)
                  IN  /\ pc' = "recv"
                      /\ done'.op = "event"
                      /\ item.kind = "close_write" =>
                            done'.attempted = SelectSeq(item.paths, isFile)
             ELSE pc' = "terminated" /\ done' = done /\ fs' = fs]_vars
    /\ [][item' # item => (pc = "recv" /\ pc' = "dispatch")]_vars

\* a close-write event for two files was sent before an error item; both
\* files were handled, in the event's order, and then the error item ended
\* the process
C18_Witness ==
    /\ pc = "terminated"
    /\ item.tag = "err"
    /\ done.op = "event"
    /\ done.attempted = <<Notes, DatedA>>
    /\ <<"2024", "03", "01", DatedA>> \in DOMAIN fs
    /\ <<DatedA>> \notin DOMAIN fs

\* C20: from the creation of the channel on, main holds its sender tx, so
\* the channel always has a sender and recv never fails: no process ends at
\* the exit of the recv error, and a process that ended in the loop ended
\* on an error item it had received.
C20_RecvNeverDisconnected ==
    /\ pc \in {"watcher", "recv", "dispatch"} => "tx" \in senders
    /\ ~(pc = "recv" /\ chan = <<>> /\ senders = {})
    /\ exitAt # "recv"
    /\ (pc = "terminated" /\ exitAt \notin {"clean", "signals", "new_err", "watch_err"}) =>
          (exitAt \in {"graceful", "event_err"} /\ item.tag = "err")

\* the signal thread has ended and dropped its sender, the channel is
\* empty, and the process ended on the sentinel, main still holding tx
C20_Witness ==
    /\ pc = "terminated"
    /\ exitAt = "graceful"
    /\ sigpc = "done"
    /\ senders = {"tx", "watcher"}
    /\ chan = <<>>
    /\ emitted = MaxEmits

-----------------------------------------------------------------------------
(* Properties of the classifier, checked under ClassifySpec *)

IsDigits(s, n) == Len(s) = n /\ \A i \in 1..n : IsDigit(Char(s, i))

\* the name carries a complete date in the place the parts were put together
DateAssembled(p) ==
    /\ IsDigits(p.y, 4) /\ IsDigits(p.m, 2) /\ IsDigits(p.d, 2)
    /\ p.s1 = "-" /\ p.s2 = "-"

HolderOf(f, name) == {q \in DOMAIN f : Last(q) = name}

\* C5, as claimed: a name that starts with YYYY-MM-DD and ends in .png goes
\* to its year/month/day; every other name, a name whose date is not at its
\* start included, goes to the bucket "other".
C5_AnchoredClassifier ==
    done.op = "file" =>
        LET name == NameOf(parts)
            dest == IF parts.ext = ".png" /\ parts.pre = "2020-01-01_"
                    THEN <<"2020", "01", "01">>
                    ELSE IF parts.ext = ".png" /\ parts.pre = "" /\ DateAssembled(parts)
                    THEN <<parts.y, parts.m, parts.d>>
                    ELSE <<OTHER_DIR>>
        IN  HolderOf(fs, name) = {Append(dest, name)}

\* C5, amended: a name that ends in .png and holds YYYY-MM-DD anywhere
\* before that goes to the year/month/day of the leftmost such date, taken
\* verbatim (for a name that starts with the date, that date); every other
\* name, one with a single-digit month or day included, goes to "other".
\* Every name goes to exactly one place.
C5_Classifier ==
    done.op = "file" =>
        LET name == NameOf(parts)
            dest == IF parts.ext = ".png" /\ parts.pre = "2020-01-01_"
                    THEN <<"2020", "01", "01">>
                    ELSE IF parts.ext = ".png" /\ DateAssembled(parts)
                    THEN <<parts.y, parts.m, parts.d>>
                    ELSE <<OTHER_DIR>>
        IN  /\ done.ok
            /\ HolderOf(fs, name) = {Append(dest, name)}
            /\ fs[Append(dest, name)] = FileNode(1)

\* a name whose date follows a prefix was filed under that date
C5_Witness ==
    /\ done.op = "file"
    /\ parts.pre = "shot-"
    /\ <<"0999", "05", "09", NameOf(parts)>> \in DOMAIN fs

\* C19, as claimed: a file update_file has put in the partition of its
\* date, that partition being the only one of the root, is followed by a
\* refresh that rebuilds the same path, reports no error and leaves
\* root/latest pointing at the partition, whatever the four digits of the
\* year are.
C19_RoundTrip ==
    (done.op = "latest" /\ Destination(NameOf(parts)) # <<OTHER_DIR>>) =>
        /\ done.ok
        /\ IsSymlink(fs, <<LATEST>>)
        /\ fs[<<LATEST>>].target = Destination(NameOf(parts))

-----------------------------------------------------------------------------
(* Properties of the handlers, checked under FsSpec *)

Num(name) == ParseU32(name).val

IsYearName(n) == Len(n) >= 1 /\ IsDigits(n, Len(n)) /\ Char(n, 1) # "0"

SubDirs(f, d) == {p \in Children(f, d) : f[p].kind = "dir"}

\* the year/month/day directories of a tree
Partitions(f) ==
    {p \in DOMAIN f : Len(p) = 3 /\ \A k \in 1..3 : f[SubSeq(p, 1, k)].kind = "dir"
                      /\ p[1] \notin {OTHER_DIR, LATEST}}

\* every directory of the root but "other" and "latest" is a year named by
\* an unpadded number, holding months named by two digits, holding days
\* named by two digits, and there is a partition
WellFormedRoot(f) ==
    /\ Partitions(f) # {}
    /\ \A y \in SubDirs(f, Root) :
          y[1] \notin {OTHER_DIR, LATEST} =>
              /\ IsYearName(y[1])
              /\ SubDirs(f, y) # {}
              /\ \A m \in SubDirs(f, y) :
                    /\ IsDigits(m[2], 2)
                    /\ SubDirs(f, m) # {}
                    /\ \A d \in SubDirs(f, m) : IsDigits(d[3], 2)

\* the greatest year, the greatest month of that year, the greatest day of
\* that month
Selected(f) ==
    LET P == Partitions(f)
        y == Max({Num(p[1]) : p \in P})
        Py == {p \in P : Num(p[1]) = y}
        m == Max({Num(p[2]) : p \in Py})
        Pm == {p \in Py : Num(p[2]) = m}
        d == Max({Num(p[3]) : p \in Pm})
    IN  CHOOSE p \in Pm : Num(p[3]) = d

LatestFree(f) ==
    \/ <<LATEST>> \notin DOMAIN f
    \/ (IsSymlink(f, <<LATEST>>) /\ Exists(f, <<LATEST>>))

\* C6: on a root of well-formed partitions, a link update_latest publishes
\* points at the partition of the greatest year, the greatest month within
\* that year and the greatest day within that month, whatever the other
\* years and months hold; and it does publish when root/latest is absent or
\* a link to something that exists.
C6_LatestSelection ==
    (done.op = "latest" /\ WellFormedRoot(before)) =>
        /\ done.linked => fs[<<LATEST>>] = LinkNode(Selected(before))
        /\ LatestFree(before) => (done.ok /\ done.linked)
        /\ \A p \in DOMAIN fs \cup DOMAIN before :
              p # <<LATEST>> => (p \in DOMAIN fs /\ p \in DOMAIN before /\ fs[p] = before[p])

\* 2023/01/05 was chosen over 2022/12/31, whose month and day are greater
C6_Witness ==
    /\ done.op = "latest"
    /\ WellFormedRoot(before)
    /\ <<"2022", "12", "31">> \in DOMAIN before
    /\ Partitions(before) \cap {<<"2023", "12", "05">>, <<"2023", "12", "31">>,
                                <<"2023", "01", "31">>} = {}
    /\ IsSymlink(fs, <<LATEST>>)
    /\ fs[<<LATEST>>].target = <<"2023", "01", "05">>

\* C7, as claimed: on an empty root update_latest creates no link and
\* reports no error to its caller, so a reconciliation pass over an empty
\* root succeeds.
C7_EmptyRootNoError ==
    (done.op \in {"latest", "clean"} /\ DOMAIN before = {}) =>
        (done.ok /\ ~done.linked /\ fs = before)

\* C8, as claimed: a root/latest that is a regular file or a directory is
\* left as it is by every handler.
C8_LatestNeverTouched ==
    (done.op # "none" /\ <<LATEST>> \in DOMAIN before
        /\ before[<<LATEST>>].kind # "symlink") =>
        (<<LATEST>> \in DOMAIN fs /\ fs[<<LATEST>>] = before[<<LATEST>>])

\* C10: one clean_directory pass runs update_file on every entry of the
\* root, once; a failure is recorded and the pass goes on: every file of the
\* root is afterwards either in its destination (and no longer in the
\* root, where only a directory made since or the refreshed link may bear
\* its name) or, its move
\* having failed, still in the root; update_latest runs once, after the
\* entries.
C10_BatchIsolation ==
    done.op = "clean" =>
        /\ Len(done.attempted) = Cardinality(RootNames(before))
        /\ {done.attempted[i] : i \in 1..Len(done.attempted)} = RootNames(before)
        /\ done.refreshes = 1
        /\ \A n \in RootNames(before) :
              IsFile(before, <<n>>) =>
                  LET to == Append(Destination(n), n)
                      failed == \E i \in 1..Len(done.errors) : done.errors[i] = n
                  IN  IF failed
                      THEN <<n>> \in DOMAIN fs /\ fs[<<n>>] = before[<<n>>]
                      ELSE /\ <<n>> \in DOMAIN fs => fs[<<n>>].kind # "file"
                           /\ to \in DOMAIN fs
                           /\ fs[to] = before[<<n>>]

\* of three files one failed to move and the other two were relocated
C10_Witness ==
    /\ done.op = "clean"
    /\ done.errors = <<Notes>>
    /\ before[<<Notes>>].kind = "file"
    /\ <<Notes>> \in DOMAIN fs
    /\ <<"2024", "03", "01", DatedA>> \in DOMAIN fs
    /\ <<OTHER_DIR, Memo>> \in DOMAIN fs
    /\ fs[<<OTHER_DIR, Memo>>].kind = "file"

\* the day directories of the month a link's target lies in are named by two
\* digits, as the mover names them
DaysCanonical(f, t) ==
    \A d \in SubDirs(f, SubSeq(t, 1, 2)) : IsDigits(d[3], 2)

\* C11: no handler publishes a dangling link.  A step that puts a new
\* symbolic link at root/latest puts one whose target, a year/month/day
\* path, exists (a directory when the days of that month are named as the
\* mover names them); a link that resolves keeps resolving, for no handler
\* removes a directory; and a handler that published nothing, the computed
\* day path being absent included, left root/latest absent or as it was.
C11_NoDanglingLink ==
    /\ [][(IsSymlink(fs', <<LATEST>>)
             /\ (<<LATEST>> \in DOMAIN fs => fs[<<LATEST>>] # fs'[<<LATEST>>])) =>
               LET t == fs'[<<LATEST>>].target
               IN  /\ done'.linked
                   /\ Len(t) = 3
                   /\ Exists(fs', t)
                   /\ DaysCanonical(fs, t) => IsDir(fs', t)]_vars
    /\ [][(IsSymlink(fs, <<LATEST>>) /\ Exists(fs, <<LATEST>>)
             /\ IsSymlink(fs', <<LATEST>>)) => Exists(fs', <<LATEST>>)]_vars
    /\ [](done.op # "none" /\ ~done.linked =>
             \/ <<LATEST>> \notin DOMAIN fs
             \/ (<<LATEST>> \in DOMAIN before /\ fs[<<LATEST>>] = before[<<LATEST>>]))

\* the greatest month holds no day: the refresh removed the link that was
\* there, made none, and reported no error
C11_Witness ==
    /\ done.op = "latest"
    /\ done.ok
    /\ ~done.linked
    /\ IsSymlink(before, <<LATEST>>)
    /\ Exists(before, <<LATEST>>)
    /\ Children(before, <<"2025", "01">>) = {}
    /\ <<"2025", "01">> \in DOMAIN before
    /\ <<LATEST>> \notin DOMAIN fs

\* C13, as claimed: a refresh that finds root/latest to be a symbolic link,
\* whatever its target, and computes a day path that exists, leaves
\* root/latest pointing at that day path and reports no error.
C13_SymlinkReplaced ==
    (done.op = "latest" /\ IsSymlink(before, <<LATEST>>) /\ WellFormedRoot(before)) =>
        /\ done.ok
        /\ IsSymlink(fs, <<LATEST>>)
        /\ fs[<<LATEST>>].target = Selected(before)

\* the root entries update_file acts on: Path::is_file follows a link
RootFiles(f) == {n \in RootNames(f) : IsFile(f, <<n>>)}

\* C14, as claimed: a pass moves only the regular files of the root; every
\* other entry of the root but the refreshed link, every directory, and
\* every file inside a partition or inside "other" is afterwards where and
\* what it was.
C14_OnlyRootFilesMoved ==
    done.op = "clean" =>
        \A p \in DOMAIN before :
            (Len(p) >= 2 \/ before[p].kind = "dir"
                \/ (before[p].kind = "symlink" /\ p # <<LATEST>>)) =>
                (p \in DOMAIN fs /\ fs[p] = before[p])

\* C14, amended: a pass moves only those entries of the root that is_file
\* accepts, which are the regular files and the links to regular files;
\* every directory stays, every other entry of the root but root/latest
\* stays, and a file inside a partition or inside "other" stays unless a
\* moved entry of the same name was renamed over it; what the pass adds is
\* destination directories, the moved entries and root/latest.
C14_Frame ==
    done.op = "clean" =>
        /\ \A p \in DOMAIN before :
              /\ before[p].kind = "dir" => (p \in DOMAIN fs /\ fs[p] = DirNode)
              /\ (Len(p) = 1 /\ p # <<LATEST>> /\ ~IsFile(before, p)) =>
                    (p \in DOMAIN fs /\ fs[p] = before[p])
              /\ Len(p) >= 2 =>
                    /\ p \in DOMAIN fs
                    /\ \/ fs[p] = before[p]
                       \/ \E n \in RootFiles(before) :
                             /\ p = Append(Destination(n), n)
                             /\ fs[p] = before[<<n>>]
        /\ \A p \in DOMAIN fs \ DOMAIN before :
              \/ p = <<LATEST>>
              \/ \E n \in RootFiles(before) :
                    /\ IsPrefix(p, Append(Destination(n), n))
                    /\ p = Append(Destination(n), n) => fs[p] = before[<<n>>]
                    /\ p # Append(Destination(n), n) => fs[p] = DirNode

\* a file of the root was renamed over the file of its name in 2023/12/31
C14_Witness ==
    /\ done.op = "clean"
    /\ {<<DatedB>>, <<"2023", "12", "31", DatedB>>} \subseteq DOMAIN before
    /\ before[<<DatedB>>] = FileNode(1)
    /\ before[<<"2023", "12", "31", DatedB>>] = FileNode(2)
    /\ fs[<<"2023", "12", "31", DatedB>>] = FileNode(1)
    /\ <<DatedB>> \notin DOMAIN fs

====
